---- MODULE Spec2Model ----
(***************************************************************************)
(* The contacts router (src/routes/contacts.py): nine role-gated HTTP      *)
(* endpoints over one Contact table.  The router's own code is the         *)
(* handlers and their dependency wiring; the persistence gateway           *)
(* (src.repository.contacts), the authenticator (auth_service) and the     *)
(* RoleAccess gate live in other modules of the repository and are         *)
(* modelled here from the specification's description of them.             *)
(*                                                                         *)
(* A handler runs without interruption up to each gateway call it awaits.  *)
(* Eight handlers await the gateway once and are one step each.            *)
(* create_contacts awaits it twice (the uniqueness check, then the         *)
(* insert): it is two steps, and any other request, another create         *)
(* included, may be served between them.                                   *)
(***************************************************************************)
EXTENDS Integers, Sequences, FiniteSets, Bags

VARIABLES table, nextId, req, resp, inflight

vars == <<table, nextId, req, resp, inflight>>

(***************************************************************************)
(* Bounds and value domains                                                *)
(***************************************************************************)
\* ids the table's autoincrement key may hand out: 1..MaxId
MaxId == 2

FirstNames == {<<"a", "n">>, <<"b", "o">>}
LastNames == {<<"l", "i">>}
Emails == {"e1", "e2"}
\* one birthday and three current dates: the birthday is after the window
\* (today 0), on its last bound (1), on its first bound (8)
Birthdays == {8}
Todays == {0, 1, 8}
\* path arguments of the name searches: the tail of a first name or a full
\* last name, and a letter that occurs in no name
FirstNameArgs == {<<"n">>, <<"z">>}
LastNameArgs == {<<"l", "i">>, <<"z">>}
EmailArgs == Emails \cup {"e9"}
\* path ids: every id the table can hold (absent until created, and again
\* once removed)
IdArgs == 1..MaxId
Credentials == {"absent", "invalid", "tok_admin", "tok_moderator", "tok_user"}

Bodies == [first_name : FirstNames, last_name : LastNames,
           email : Emails, birthday : Birthdays]

NoBody == [first_name |-> <<>>, last_name |-> <<>>, email |-> "", birthday |-> 0]

(***************************************************************************)
(* Status codes                                                            *)
(***************************************************************************)
HTTP_200_OK == 200
HTTP_201_CREATED == 201
HTTP_204_NO_CONTENT == 204
HTTP_401_UNAUTHORIZED == 401
HTTP_403_FORBIDDEN == 403
HTTP_404_NOT_FOUND == 404
HTTP_409_CONFLICT == 409

\* timedelta(days=7)
BirthdayWindowDays == 7

(***************************************************************************)
(* Role sets of the four RoleAccess rules                                  *)
(***************************************************************************)
allowed_operation_get == {"admin", "moderator", "user"}

allowed_operation_create == {"admin", "moderator", "user"}

\* variant: the update rule also admits the user role
allowed_operation_update_with_user == {"admin", "moderator", "user"}

allowed_operation_update == {"admin", "moderator"}

allowed_operation_remove == {"admin"}

(***************************************************************************)
(* Authenticator: a credential resolves to a user's role, or to nobody.    *)
(***************************************************************************)
NoUser == "nobody"

get_current_user(cred) ==
    CASE cred = "tok_admin" -> "admin"
      [] cred = "tok_moderator" -> "moderator"
      [] cred = "tok_user" -> "user"
      [] OTHER -> NoUser

(***************************************************************************)
(* Values the gateway returns: None, one record, or a list (kept as the    *)
(* set of its records; the order of a list is not modelled).               *)
(***************************************************************************)
None == [none |-> TRUE, kind |-> "none", items |-> {}]

One(c) == [none |-> FALSE, kind |-> "one", items |-> {c}]

List(S) == [none |-> FALSE, kind |-> "list", items |-> S]

\* Python truthiness of a gateway value that is None or a Contact object
Truthy(v) == ~v.none

Ids(tbl) == {c.id : c \in tbl}

WithId(body, id) ==
    [id |-> id, first_name |-> body.first_name, last_name |-> body.last_name,
     email |-> body.email, birthday |-> body.birthday]

Fields(c) ==
    [first_name |-> c.first_name, last_name |-> c.last_name,
     email |-> c.email, birthday |-> c.birthday]

\* arg occurs in name as a contiguous run of letters
Contains(name, arg) ==
    \E i \in 1..(Len(name) + 1) :
        /\ i + Len(arg) - 1 <= Len(name)
        /\ SubSeq(name, i, i + Len(arg) - 1) = arg

(***************************************************************************)
(* Persistence gateway                                                     *)
(***************************************************************************)
repository_get_contacts(tbl) == List(tbl)

repository_get_contact_by_id(id, tbl) ==
    IF id \in Ids(tbl) THEN One(CHOOSE c \in tbl : c.id = id) ELSE None

\* first row with that email (lowest id), or None
repository_get_contact_by_email(email, tbl) ==
    LET hits == {c \in tbl : c.email = email}
    IN  IF hits = {} THEN None
        ELSE One(CHOOSE c \in hits : \A d \in hits : c.id <= d.id)

repository_search_contacts_by_last_name(last_name, tbl) ==
    List({c \in tbl : Contains(c.last_name, last_name)})

repository_search_contacts_by_first_name(first_name, tbl) ==
    List({c \in tbl : Contains(c.first_name, first_name)})

repository_search_contact_by_email(email, tbl) ==
    List({c \in tbl : c.email = email})

\* insert: the table's key is the next autoincrement id
repository_create(body, tbl, nid) ==
    [value |-> One(WithId(body, nid)),
     table |-> tbl \cup {WithId(body, nid)},
     nextId |-> nid + 1]

\* overwrite every field of row id with the body; None when there is no row
repository_update(id, body, tbl) ==
    IF id \in Ids(tbl)
    THEN [value |-> One(WithId(body, id)),
          table |-> {c \in tbl : c.id # id} \cup {WithId(body, id)}]
    ELSE [value |-> None, table |-> tbl]

\* delete row id and return it; None when there is no row
repository_remove(id, tbl) ==
    IF id \in Ids(tbl)
    THEN [value |-> One(CHOOSE c \in tbl : c.id = id),
          table |-> {c \in tbl : c.id # id}]
    ELSE [value |-> None, table |-> tbl]

\* rows whose birthday lies between the two bounds; whether the upper bound
\* itself is part of the range is described both ways (inclusive range,
\* half-open range), so both are admitted: endIncluded is the gateway's choice
repository_get_birthdays(start, end, endIncluded, tbl) ==
    List({c \in tbl : /\ start <= c.birthday
                      /\ \/ c.birthday < end
                         \/ endIncluded /\ c.birthday = end})

(***************************************************************************)
(* What an endpoint yields: the response and the store it leaves.          *)
(* gw counts the gateway calls made while serving the request.             *)
(***************************************************************************)
Out(status, value, gw, tbl, nid) ==
    [status |-> status, kind |-> value.kind, items |-> value.items,
     gw |-> gw, table |-> tbl, nextId |-> nid]

\* FastAPI resolves an endpoint's dependencies before it calls the handler:
\* the RoleAccess gate depends on the current user, so the authenticator
\* runs first (401), then the gate (403), and only then the handler.
Depends(cred, allowed, out, tbl, nid) ==
    IF get_current_user(cred) = NoUser
    THEN Out(HTTP_401_UNAUTHORIZED, None, 0, tbl, nid)
    ELSE IF get_current_user(cred) \notin allowed
         THEN Out(HTTP_403_FORBIDDEN, None, 0, tbl, nid)
         ELSE out

(***************************************************************************)
(* Handlers: the bodies of the nine route functions                        *)
(***************************************************************************)
get_contacts(tbl, nid) ==
    Out(HTTP_200_OK, repository_get_contacts(tbl), 1, tbl, nid)

\* variant: the lookup uses the wrong id
get_contact_off_by_one(id, tbl, nid) ==
    LET contact == repository_get_contact_by_id(id + 1, tbl)
    IN  IF contact.none
        THEN Out(HTTP_404_NOT_FOUND, None, 1, tbl, nid)
        ELSE Out(HTTP_200_OK, contact, 1, tbl, nid)

get_contact(id, tbl, nid) ==
    LET contact == repository_get_contact_by_id(id, tbl)
    IN  IF contact.none
        THEN Out(HTTP_404_NOT_FOUND, None, 1, tbl, nid)
        ELSE Out(HTTP_200_OK, contact, 1, tbl, nid)

search_contacts_by_last_name(last_name, tbl, nid) ==
    LET contact == repository_search_contacts_by_last_name(last_name, tbl)
    IN  IF contact.none
        THEN Out(HTTP_404_NOT_FOUND, None, 1, tbl, nid)
        ELSE Out(HTTP_200_OK, contact, 1, tbl, nid)

search_contacts_by_first_name(first_name, tbl, nid) ==
    LET contact == repository_search_contacts_by_first_name(first_name, tbl)
    IN  IF contact.none
        THEN Out(HTTP_404_NOT_FOUND, None, 1, tbl, nid)
        ELSE Out(HTTP_200_OK, contact, 1, tbl, nid)

search_contacts_by_email(email, tbl, nid) ==
    LET contact == repository_search_contact_by_email(email, tbl)
    IN  IF contact.none
        THEN Out(HTTP_404_NOT_FOUND, None, 1, tbl, nid)
        ELSE Out(HTTP_200_OK, contact, 1, tbl, nid)

\* the first gateway call of create_contacts: the uniqueness check
create_check(body, tbl) == repository_get_contact_by_email(body.email, tbl)

\* the second gateway call of create_contacts: the insert
create_insert(body, tbl, nid) ==
    LET r == repository_create(body, tbl, nid)
    IN  Out(HTTP_201_CREATED, r.value, 2, r.table, r.nextId)

\* variant: the None test of update inverted
update_contact_swapped_test(body, id, tbl, nid) ==
    LET r == repository_update(id, body, tbl)
    IN  IF ~r.value.none
        THEN Out(HTTP_404_NOT_FOUND, None, 1, r.table, nid)
        ELSE Out(HTTP_200_OK, r.value, 1, r.table, nid)

update_contact(body, id, tbl, nid) ==
    LET r == repository_update(id, body, tbl)
    IN  IF r.value.none
        THEN Out(HTTP_404_NOT_FOUND, None, 1, r.table, nid)
        ELSE Out(HTTP_200_OK, r.value, 1, r.table, nid)

\* variant: remove without the None test
remove_contact_no_test(id, tbl, nid) ==
    LET r == repository_remove(id, tbl)
    IN  Out(HTTP_204_NO_CONTENT, r.value, 1, r.table, nid)

remove_contact(id, tbl, nid) ==
    LET r == repository_remove(id, tbl)
    IN  IF r.value.none
        THEN Out(HTTP_404_NOT_FOUND, None, 1, r.table, nid)
        ELSE Out(HTTP_204_NO_CONTENT, r.value, 1, r.table, nid)

get_birthdays(today, endIncluded, tbl, nid) ==
    LET end_date == today + BirthdayWindowDays
        birthdays == repository_get_birthdays(today, end_date, endIncluded, tbl)
    IN  IF birthdays.none
        THEN Out(HTTP_404_NOT_FOUND, None, 1, tbl, nid)
        ELSE Out(HTTP_200_OK, birthdays, 1, tbl, nid)

(***************************************************************************)
(* State                                                                   *)
(***************************************************************************)
Request(op, cred, id, body, name, email, today) ==
    [op |-> op, cred |-> cred, id |-> id, body |-> body,
     name |-> name, email |-> email, today |-> today]

\* a create that has passed its uniqueness check and awaits its insert
Pending(cred, body) == [cred |-> cred, body |-> body]

\* inflight is the bag of such creates (two may carry the same request)
InFlight == BagCardinality(inflight)

Init ==
    /\ table = {}
    /\ nextId = 1
    /\ req = Request("none", "absent", 0, NoBody, <<>>, "", 0)
    /\ resp = [status |-> 0, kind |-> "none", items |-> {}, gw |-> 0]
    /\ inflight = EmptyBag

\* a step of request r: out is what the endpoint yields in it
Answer(r, out) ==
    /\ req' = r
    /\ resp' = [status |-> out.status, kind |-> out.kind,
                items |-> out.items, gw |-> out.gw]
    /\ table' = out.table
    /\ nextId' = out.nextId

\* a request whose handler awaits the gateway once, served in one step
Serve(r, out) ==
    /\ Answer(r, out)
    /\ UNCHANGED inflight

(***************************************************************************)
(* Endpoints: the route decorators and signatures                          *)
(***************************************************************************)
GetContacts ==
    \E cred \in Credentials :
        Serve(Request("get_contacts", cred, 0, NoBody, <<>>, "", 0),
              Depends(cred, allowed_operation_get,
                      get_contacts(table, nextId), table, nextId))

GetContact ==
    \E cred \in Credentials, id \in IdArgs :
        Serve(Request("get_contact", cred, id, NoBody, <<>>, "", 0),
              Depends(cred, allowed_operation_get,
                      get_contact(id, table, nextId), table, nextId))

SearchContactsByLastName ==
    \E cred \in Credentials, last_name \in LastNameArgs :
        Serve(Request("search_by_last_name", cred, 0, NoBody, last_name, "", 0),
              Depends(cred, allowed_operation_get,
                      search_contacts_by_last_name(last_name, table, nextId),
                      table, nextId))

SearchContactsByFirstName ==
    \E cred \in Credentials, first_name \in FirstNameArgs :
        Serve(Request("search_by_first_name", cred, 0, NoBody, first_name, "", 0),
              Depends(cred, allowed_operation_get,
                      search_contacts_by_first_name(first_name, table, nextId),
                      table, nextId))

SearchContactsByEmail ==
    \E cred \in Credentials, email \in EmailArgs :
        Serve(Request("search_by_email", cred, 0, NoBody, <<>>, email, 0),
              Depends(cred, allowed_operation_get,
                      search_contacts_by_email(email, table, nextId),
                      table, nextId))

\* no answer yet: the handler is suspended between its two gateway calls
NoAnswer == 0

\* POST /contacts/ up to the answer or the second await: the dependencies,
\* then the uniqueness check.  A rejected or conflicting request is answered
\* here; otherwise the request stays in flight with its insert still to come
\* (at most two in flight, and only while the id sequence has an id left).
CreateContacts ==
    \E cred \in Credentials, body \in Bodies :
        LET contact == create_check(body, table)
            passed == Out(NoAnswer, None, 1, table, nextId)
            out == Depends(cred, allowed_operation_create,
                           IF Truthy(contact)
                           THEN Out(HTTP_409_CONFLICT, None, 1, table, nextId)
                           ELSE passed,
                           table, nextId)
        IN  /\ Answer(Request("create", cred, 0, body, <<>>, "", 0), out)
            /\ IF out.status = NoAnswer
               THEN /\ InFlight < 2
                    /\ nextId + InFlight <= MaxId
                    /\ inflight' = inflight (+) SetToBag({Pending(cred, body)})
               ELSE UNCHANGED inflight

\* POST /contacts/ from the second await on: the insert and the 201 answer
CreateContactsInsert ==
    \E r \in BagToSet(inflight) :
        /\ Answer(Request("create", r.cred, 0, r.body, <<>>, "", 0),
                  create_insert(r.body, table, nextId))
        /\ inflight' = inflight (-) SetToBag({r})

UpdateContact ==
    \E cred \in Credentials, body \in Bodies, id \in IdArgs :
        Serve(Request("update", cred, id, body, <<>>, "", 0),
              Depends(cred, allowed_operation_update,
                      update_contact(body, id, table, nextId), table, nextId))

\* variant: the delete route declared without its dependencies
RemoveContactNoDependencies ==
    \E cred \in Credentials, id \in IdArgs :
        Serve(Request("remove", cred, id, NoBody, <<>>, "", 0),
              remove_contact(id, table, nextId))

RemoveContact ==
    \E cred \in Credentials, id \in IdArgs :
        Serve(Request("remove", cred, id, NoBody, <<>>, "", 0),
              Depends(cred, allowed_operation_remove,
                      remove_contact(id, table, nextId), table, nextId))

GetBirthdays ==
    \E cred \in Credentials, today \in Todays, endIncluded \in BOOLEAN :
        Serve(Request("birthdays", cred, 0, NoBody, <<>>, "", today),
              Depends(cred, allowed_operation_get,
                      get_birthdays(today, endIncluded, table, nextId),
                      table, nextId))

Next ==
    \/ GetContacts
    \/ GetContact
    \/ SearchContactsByLastName
    \/ SearchContactsByFirstName
    \/ SearchContactsByEmail
    \/ CreateContacts
    \/ CreateContactsInsert
    \/ UpdateContact
    \/ RemoveContact
    \/ GetBirthdays

Spec == Init /\ [][Next]_vars

(***************************************************************************)
(* Properties                                                              *)
(***************************************************************************)
Role(r) == get_current_user(r.cred)

Authenticated(r) == r.op # "none" /\ Role(r) # NoUser

\* C1: for an authenticated user, a request is answered Forbidden (403)
\* exactly when the user's role is outside the operation's role set: reads
\* and create admit admin, moderator and user; update admits admin and
\* moderator; delete admits admin only.
C1_ForbiddenIffRoleNotAllowed ==
    Authenticated(req) =>
        (resp.status = 403 <=>
            Role(req) \notin
                (CASE req.op = "update" -> {"admin", "moderator"}
                   [] req.op = "remove" -> {"admin"}
                   [] OTHER -> {"admin", "moderator", "user"}))

\* C1 witness: a 'user' asked to update a contact that exists and got 403.
C1_UserUpdateForbidden ==
    /\ req.op = "update"
    /\ req.cred = "tok_user"
    /\ req.id \in Ids(table)
    /\ resp.status = 403

\* C2: a create by a permitted user whose email some contact already has is
\* answered Conflict (409) and leaves the table as it was; otherwise exactly
\* one new contact with the body's fields is inserted and returned with 201.
\* Stated of the step in which the create is answered.
C2_CreateConflictOrInsert ==
    [][(/\ req'.op = "create"
        /\ Role(req') \in {"admin", "moderator", "user"}
        /\ resp'.status # NoAnswer) =>
          IF \E c \in table : c.email = req'.body.email
          THEN resp'.status = 409 /\ table' = table
          ELSE /\ resp'.status = 201
               /\ \E c \in table' :
                    /\ c.id \notin Ids(table)
                    /\ table' = table \cup {c}
                    /\ Fields(c) = req'.body
                    /\ resp'.items = {c}]_vars

\* C3: no two distinct contacts of the table have the same email, in every
\* state reachable by create, update and delete requests from the empty table.
C3_EmailsUnique ==
    \A c, d \in table : c.email = d.email => c = d

\* C4: a delete by an admin of an id that no contact has is answered
\* NotFound (404) and leaves the table as it was.
C4_RemoveAbsentNotFound ==
    [][(req'.op = "remove" /\ Role(req') = "admin" /\ req'.id \notin Ids(table)) =>
          (resp'.status = 404 /\ table' = table)]_vars

\* C4 witness: an admin's delete of an absent id on a non-empty table was
\* answered 404.
C4_AbsentDeleteAnswered ==
    /\ req.op = "remove"
    /\ req.cred = "tok_admin"
    /\ req.id \notin Ids(table)
    /\ table # {}
    /\ resp.status = 404

\* C5: an update by an admin or moderator of an absent id is answered
\* NotFound (404) and creates or modifies nothing; of a present id, it
\* overwrites every field with the body, keeps the id, leaves the other
\* contacts alone and returns the updated record.
C5_UpdateAbsentOrOverwrite ==
    [][(req'.op = "update" /\ Role(req') \in {"admin", "moderator"}) =>
          IF req'.id \notin Ids(table)
          THEN resp'.status = 404 /\ table' = table
          ELSE /\ resp'.status = 200
               /\ \E c \in table' :
                    /\ c.id = req'.id
                    /\ Fields(c) = req'.body
                    /\ resp'.items = {c}
                    /\ table' \ {c} = {d \in table : d.id # req'.id}]_vars

\* C5 witness: a moderator's update of a present id was answered 200 and the
\* contact now carries the body's fields.
C5_UpdateApplied ==
    /\ req.op = "update"
    /\ req.cred = "tok_moderator"
    /\ resp.status = 200
    /\ \E c \in table : c.id = req.id /\ Fields(c) = req.body

\* C6: when a create has just succeeded and returned a record with id i, a
\* search_by_id(i) served next returns 200 with a single record whose id and
\* fields are those of the record create returned.
C6_CreateThenSearchById ==
    [][(/\ req.op = "create"
        /\ resp.status = 201
        /\ req'.op = "get_contact"
        /\ Role(req') \in {"admin", "moderator", "user"}
        /\ \E c \in resp.items : c.id = req'.id) =>
          (resp'.status = 200 /\ resp'.kind = "one" /\ resp'.items = resp.items)]_vars

\* C6 witness: search_by_id found the most recently created contact.
C6_NewestFoundById ==
    /\ req.op = "get_contact"
    /\ resp.status = 200
    /\ \E c \in resp.items : c.id = req.id /\ c.id = nextId - 1

\* C7: a search by last name, first name or email whose argument matches no
\* contact is answered NotFound (404), not 200 with an empty list.
C7_SearchMissNotFound ==
    /\ (/\ req.op = "search_by_last_name"
        /\ Authenticated(req)
        /\ \A c \in table : ~Contains(c.last_name, req.name)) => resp.status = 404
    /\ (/\ req.op = "search_by_first_name"
        /\ Authenticated(req)
        /\ \A c \in table : ~Contains(c.first_name, req.name)) => resp.status = 404
    /\ (/\ req.op = "search_by_email"
        /\ Authenticated(req)
        /\ \A c \in table : c.email # req.email) => resp.status = 404

\* C9: a request with an absent or invalid credential is answered
\* Unauthorized (401); a request answered 401 or 403 made no gateway call
\* and left the table as it was.
C9_AuthThenRoleThenGateway ==
    [][/\ Role(req') = NoUser => resp'.status = 401
       /\ resp'.status \in {401, 403} =>
            (resp'.gw = 0 /\ table' = table /\ nextId' = nextId)]_vars

\* C9 witness: a delete of an existing contact without a credential was
\* answered 401 and the contact is still there.
C9_UnauthenticatedDeleteRejected ==
    /\ req.op = "remove"
    /\ req.cred = "absent"
    /\ req.id \in Ids(table)
    /\ resp.status = 401

\* C10: of two concurrent create requests with the same email, started on a
\* table without it, at most one inserts and the other is answered Conflict:
\* two creates with the same email are never both past the uniqueness check,
\* and a create answered 201 never adds a second contact with its email.
C10_ConcurrentCreateOneWins ==
    [][/\ \A e \in Emails :
            BagCardinality([r \in {x \in BagToSet(inflight') : x.body.email = e}
                              |-> inflight'[r]]) <= 1
       /\ (req'.op = "create" /\ resp'.status = 201) =>
            \A c \in resp'.items : \A d \in table' : d.email = c.email => d = c]_vars

====
